---- MODULE Spec2Model ----
(***************************************************************************)
(* Model of the Vest delegated-signer scripts:                             *)
(*   src/src/utils/vest.py  generates a signing key, signs an EIP-712      *)
(*                          SignerProof with the primary key and posts the *)
(*                          registration request;                          *)
(*   src/test-vest.py       ABI-encodes an order, hashes it, wraps it as a *)
(*                          personal message and signs it.                 *)
(*                                                                         *)
(* secp256k1 is scaled down to the curve y^2 = x^3 + 7 over F_43, whose    *)
(* group has prime order 31 (the same equation, cofactor 1, N < P as for   *)
(* secp256k1), and a 32-byte big-endian integer is scaled down to a        *)
(* WordBits-bit one.  keccak256 is modelled as a collision-free            *)
(* constructor over its preimage (Keccak); the integer a digest denotes    *)
(* when it is handed to ECDSA is a fold of that preimage (Bits2Int).       *)
(***************************************************************************)
EXTENDS Integers, Sequences, FiniteSets, TLC

VARIABLES
    script,               \* which script this run executes
    pc,                   \* position in the script (source line about to run)
    now,                  \* wall clock, seconds (time.time())
    entropy,              \* the value the OS random source returns next
    primaryAddr,          \* vest.py: os.getenv("PUBLIC_KEY")
    primary_private_key,  \* vest.py: os.getenv("PRIVATE_KEY")
    acct,                 \* vest.py: acct (key, address)
    expiry,               \* vest.py: expiry
    proofSignature,       \* vest.py: proofSignature (a SignableMessage)
    signable_msg,         \* test-vest.py: signable_msg (a SignableMessage)
    signature,            \* signature (hex string)
    cmd,                  \* vest.py: cmd
    stdout,               \* lines printed so far
    posted,               \* registration requests issued by os.system(cmd)
    signLog,              \* private keys handed to sign_message so far
    order,                \* test-vest.py: the eight order fields
    orderKey,             \* test-vest.py: the private key literal
    args,                 \* test-vest.py: args
    sigKey,               \* sign/recover: private scalar
    sigDigest,            \* sign/recover: 32-byte digest (as an integer)
    sigOut,               \* sign/recover: the signature
    recovered             \* sign/recover: recovered address

vars == <<script, pc, now, entropy, primaryAddr, primary_private_key, acct,
          expiry, proofSignature, signable_msg, signature, cmd, stdout, posted,
          signLog, order, orderKey, args, sigKey, sigDigest, sigOut, recovered>>

-----------------------------------------------------------------------------
(* Bounds of the model *)

MaxTime == 1          \* the clock runs over 0..MaxTime
MaxStrLen == 1        \* order strings have at most this many bytes

-----------------------------------------------------------------------------
(* The curve (eth_keys / libsecp256k1 constants, scaled down) *)

P == 43               \* field prime
N == 31               \* group order
B == 7                \* y^2 = x^3 + B
Gx == 2               \* base point
Gy == 12
WordBits == 6         \* width of a "32-byte" integer: 2^WordBits > P

Pow2(n) == 2 ^ n
WordMax == Pow2(WordBits) - 1

Inf == <<0, 0>>       \* the point at infinity (eth_keys' convention)
G == <<Gx, Gy>>

Inv(a, m) == CHOOSE x \in 1..(m - 1) : (a * x) % m = 1

OnCurve(pt) == pt # Inf /\ (pt[2] * pt[2] - pt[1] * pt[1] * pt[1] - B) % P = 0

Add(p1, p2) ==
    IF p1 = Inf THEN p2
    ELSE IF p2 = Inf THEN p1
    ELSE IF p1[1] = p2[1] /\ (p1[2] + p2[2]) % P = 0 THEN Inf
    ELSE LET lam == IF p1 = p2
                    THEN (3 * p1[1] * p1[1] * Inv((2 * p1[2]) % P, P)) % P
                    ELSE ((p2[2] - p1[2]) * Inv((p2[1] - p1[1]) % P, P)) % P
             x3 == (lam * lam - p1[1] - p2[1]) % P
             y3 == (lam * (p1[1] - x3) - p1[2]) % P
         IN  <<x3, y3>>

RECURSIVE Mul(_, _)
Mul(k, pt) ==
    IF k = 0 THEN Inf
    ELSE IF k % 2 = 1 THEN Add(pt, Mul(k - 1, pt))
    ELSE LET h == Mul(k \div 2, pt) IN Add(h, h)

ValidScalar(k) == k >= 1 /\ k <= N - 1

-----------------------------------------------------------------------------
(* Bytes and hashes.  A token is one piece of a byte string: a 32-byte      *)
(* big-endian word, a run of raw bytes, or the 32-byte output of keccak256 *)
(* over a byte string.                                                     *)

Word(n) == [t |-> "w", v |-> n, data |-> <<>>, pre |-> <<>>, s |-> ""]
Raw(bs) == [t |-> "d", v |-> 0, data |-> bs, pre |-> <<>>, s |-> ""]
Text(str) == [t |-> "s", v |-> 0, data |-> <<>>, pre |-> <<>>, s |-> str]
NoToken == [t |-> "none", v |-> 0, data |-> <<>>, pre |-> <<>>, s |-> ""]

\* adjacent runs of raw bytes are one run: the same bytes, the same string
RECURSIVE Norm(_)
Norm(ts) ==
    IF Len(ts) < 2 THEN ts
    ELSE IF ts[1].t = "d" /\ ts[2].t = "d"
         THEN Norm(<<Raw(ts[1].data \o ts[2].data)>> \o SubSeq(ts, 3, Len(ts)))
         ELSE <<ts[1]>> \o Norm(Tail(ts))

Keccak(ts) == [t |-> "h", v |-> 0, data |-> <<>>, pre |-> Norm(ts), s |-> ""]

\* what a run of raw bytes adds to the fold: its length and leading bytes
ByteAt(data, i) == IF i <= Len(data) THEN data[i] + 1 ELSE 0
FoldInts(data) ==
    Len(data) + 5 * ByteAt(data, 1) + 25 * ByteAt(data, 2) + 125 * ByteAt(data, 3)

RECURSIVE FoldTokens(_, _)
FoldTokens(acc, ts) ==
    IF ts = <<>> THEN acc
    ELSE LET x == Head(ts)
             a == (acc * 3 + x.v + FoldInts(x.data) + 1) % Pow2(WordBits)
         IN  FoldTokens(FoldTokens(a, x.pre), Tail(ts))

\* big_endian_to_int of a 32-byte hash
Bits2Int(h) == FoldTokens(1, h.pre)

\* the 20-byte address of a public key: keccak(pubkey)[12:]
PubToAddress(pt) ==
    [t |-> "a", v |-> 0, data |-> <<>>, pre |-> <<Word(pt[1]), Word(pt[2])>>, s |-> ""]
AddressOf(k) == PubToAddress(Mul(k, G))

-----------------------------------------------------------------------------
(* SignatureService: eth_keys' recoverable ECDSA over the curve *)

\* a nonce drawn from the ambient random source instead
NonceFromEntropy(z, k, i) == 1 + ((entropy + i * 13) % (N - 1))

\* RFC 6979 stand-in: a nonce in 1..N-1 that is a function of the digest, the
\* key and the retry counter only
Nonce(z, k, i) == 1 + ((z * 7 + k * 11 + i * 13) % (N - 1))

\* low-s normalisation that leaves the recovery id as it was
SignAttemptNoFlip(z, k, i) ==
    LET nonce == Nonce(z, k, i)
        R == Mul(nonce, G)
        r == R[1] % N
        sRaw == (Inv(nonce, N) * ((z + r * k) % N)) % N
        recid == (R[2] % 2) + (IF R[1] >= N THEN 2 ELSE 0)
        high == sRaw * 2 > N
    IN  [r |-> r,
         s |-> IF sRaw = 0 THEN 0 ELSE IF high THEN N - sRaw ELSE sRaw,
         v |-> 27 + recid]

\* the signature the i-th nonce gives; r = 0 or s = 0 asks for the next nonce
SignAttempt(z, k, i) ==
    LET nonce == Nonce(z, k, i)
        R == Mul(nonce, G)
        r == R[1] % N
        sRaw == (Inv(nonce, N) * ((z + r * k) % N)) % N
        recid == (R[2] % 2) + (IF R[1] >= N THEN 2 ELSE 0)
        high == sRaw * 2 > N
        flip == IF recid % 2 = 0 THEN recid + 1 ELSE recid - 1
    IN  [r |-> r,
         s |-> IF sRaw = 0 THEN 0 ELSE IF high THEN N - sRaw ELSE sRaw,
         v |-> 27 + (IF high THEN flip ELSE recid)]

AttemptOk(sig) == sig.r # 0 /\ sig.s # 0

\* the first retry counter whose nonce gives a signature
FirstAttempt(z, k) ==
    CHOOSE i \in 0..(N - 2) :
        /\ AttemptOk(SignAttempt(z, k, i))
        /\ \A j \in 0..(i - 1) : ~AttemptOk(SignAttempt(z, k, j))

\* sign(digest32, privateScalar): deterministic, low-s, v = recid + 27
EcdsaSign(z, k) == SignAttempt(z, k, FirstAttempt(z, k))

\* what recover yields when it fails with InvalidSignature
NoAddress == [ok |-> FALSE, address |-> NoToken]

SqrtModP(a) == { y \in 0..(P - 1) : (y * y) % P = a % P }

\* recover(digest32, signature): the signer's address, or InvalidSignature
EcdsaRecover(z, sig) ==
    LET recid == sig.v - 27
        x == sig.r + (IF recid >= 2 THEN N ELSE 0)
        roots == SqrtModP(x * x * x + B)
        ys == { y \in roots : y % 2 = recid % 2 }
    IN  IF recid < 0 \/ recid > 3 THEN NoAddress
        ELSE IF ~ValidScalar(sig.r) \/ ~ValidScalar(sig.s) THEN NoAddress
        ELSE IF x >= P \/ ys = {} THEN NoAddress
        ELSE LET R == <<x, CHOOSE y \in ys : TRUE>>
                 u == Add(Mul(sig.s, R), Mul((N - (z % N)) % N, G))
                 Q == Mul(Inv(sig.r, N), u)
             IN  IF Q = Inf THEN NoAddress
                 ELSE [ok |-> TRUE, address |-> PubToAddress(Q)]

-----------------------------------------------------------------------------
(* Strings: what the scripts read from the environment, format and print *)

NoSig == [r |-> 0, s |-> 0, v |-> 0]

Str(kind, tok, case, n, sig, text) ==
    [kind |-> kind, tok |-> tok, case |-> case, n |-> n, sig |-> sig, text |-> text]

None == Str("none", NoToken, "", 0, NoSig, "")
\* the hex string of a 20-byte address, in the given letter case
AddrStr(tok, case) == Str("addr", tok, case, 0, NoSig, "")
\* the hex string of a 32-byte scalar
KeyStr(k) == Str("key", NoToken, "lower", k, NoSig, "")
\* the hex string of a 65-byte signature r || s || v (HexBytes.hex())
SigStr(sig) == Str("sig", NoToken, "lower", 0, sig, "")
\* the decimal string of an integer (str.format of an int)
IntStr(n) == Str("int", NoToken, "", n, NoSig, "")
Literal(text) == Str("text", NoToken, "", 0, NoSig, text)

\* str.lower()
Lower(str) == IF str.kind = "addr" THEN [str EXCEPT !.case = "lower"] ELSE str
\* to_checksum_address: the EIP-55 mixed-case hex string
ToChecksumAddress(tok) == AddrStr(tok, "checksum")
\* the bytes a hex string denotes (letter case is not part of them)
HexToBytes(str) == str.tok

-----------------------------------------------------------------------------
(* TypedDataEncoder: eth_account.messages.encode_typed_data *)

RECURSIVE JoinFields(_)
JoinFields(fields) ==
    IF fields = <<>> THEN ""
    ELSE fields[1].type \o " " \o fields[1].name
         \o (IF Len(fields) > 1 THEN "," ELSE "") \o JoinFields(Tail(fields))

\* "Name(type1 name1,type2 name2)"
EncodeType(name, fields) == name \o "(" \o JoinFields(fields) \o ")"

TypeHash(name, fields) == Keccak(<<Text(EncodeType(name, fields))>>)

ZeroBytes(n) == [i \in 1..n |-> 0]

\* one field of a struct as its 32-byte value
EncodeField(type, value) ==
    CASE type = "address" -> <<Raw(ZeroBytes(12)), HexToBytes(value)>>
      [] type = "uint256" -> <<Word(value)>>
      [] type = "bool"    -> <<Word(IF value THEN 1 ELSE 0)>>
      [] type = "string"  -> <<Keccak(<<Text(value)>>)>>

RECURSIVE EncodeData(_, _)
EncodeData(fields, values) ==
    IF fields = <<>> THEN <<>>
    ELSE EncodeField(fields[1].type, values[fields[1].name])
         \o EncodeData(Tail(fields), values)

HashStruct(name, fields, values) ==
    Keccak(<<TypeHash(name, fields)>> \o EncodeData(fields, values))

\* vest.py line 26: the production router
VerifyingContract ==
    AddrStr([t |-> "a", v |-> 0, data |-> <<>>, pre |-> <<>>,
             s |-> "919386306C47b2Fe1036e3B4F7C40D22D2461a23"], "checksum")

domain ==
    [name |-> "VestRouterV2", version |-> "0.0.1",
     verifyingContract |-> VerifyingContract]

\* the EIP712Domain fields present in the domain dict, in the standard order
DomainFields ==
    <<[name |-> "name", type |-> "string"],
      [name |-> "version", type |-> "string"],
      [name |-> "verifyingContract", type |-> "address"]>>

HashDomain(dom) == HashStruct("EIP712Domain", DomainFields, dom)

types ==
    <<[name |-> "approvedSigner", type |-> "address"],
      [name |-> "signerExpiry", type |-> "uint256"]>>

\* proofArgs of vest.py lines 35-38
ProofArgs(signing_public_key, exp) ==
    [approvedSigner |-> signing_public_key, signerExpiry |-> exp]

\* SignableMessage(version = 0x01, header = domain separator, body = struct hash)
EncodeTypedData(dom, tys, message) ==
    [version |-> 1,
     header |-> <<HashDomain(dom)>>,
     body |-> <<HashStruct("SignerProof", tys, message)>>]

-----------------------------------------------------------------------------
(* MessageWrapper: eth_account.messages.encode_defunct *)

RECURSIVE ByteLen(_)
ByteLen(ts) ==
    IF ts = <<>> THEN 0
    ELSE (CASE ts[1].t = "d" -> Len(ts[1].data)
            [] ts[1].t = "a" -> 20
            [] OTHER -> 32) + ByteLen(Tail(ts))

RECURSIVE Decimal(_)
Decimal(n) ==
    IF n < 10 THEN <<48 + n>> ELSE Decimal(n \div 10) \o <<48 + (n % 10)>>

\* b"thereum Signed Message:\n"
DefunctHeader ==
    <<116, 104, 101, 114, 101, 117, 109, 32, 83, 105, 103, 110, 101, 100, 32,
      77, 101, 115, 115, 97, 103, 101, 58, 10>>

\* SignableMessage(version = b"E", header = prefix + len(body), body = primitive)
EncodeDefunct(primitive) ==
    [version |-> 69,
     header |-> <<Raw(DefunctHeader \o Decimal(ByteLen(primitive)))>>,
     body |-> primitive]

\* _hash_eip191_message: keccak(0x19 || version || header || body)
HashEip191(m) == Keccak(<<Raw(<<25, m.version>>)>> \o m.header \o m.body)

\* Account.sign_message(signable, key).signature
SignMessage(m, key) == EcdsaSign(Bits2Int(HashEip191(m)), key)

-----------------------------------------------------------------------------
(* OrderCanonicalizer: eth_abi.encode of test-vest.py lines 13-16 *)

\* the last field encoded from isBuy a second time
OrderTypesCopyPaste ==
    <<[name |-> "time", type |-> "uint256"],
      [name |-> "nonce", type |-> "uint256"],
      [name |-> "orderType", type |-> "string"],
      [name |-> "symbol", type |-> "string"],
      [name |-> "isBuy", type |-> "bool"],
      [name |-> "size", type |-> "string"],
      [name |-> "limitPrice", type |-> "string"],
      [name |-> "isBuy", type |-> "bool"]>>

OrderTypes ==
    <<[name |-> "time", type |-> "uint256"],
      [name |-> "nonce", type |-> "uint256"],
      [name |-> "orderType", type |-> "string"],
      [name |-> "symbol", type |-> "string"],
      [name |-> "isBuy", type |-> "bool"],
      [name |-> "size", type |-> "string"],
      [name |-> "limitPrice", type |-> "string"],
      [name |-> "reduceOnly", type |-> "bool"]>>

IsDynamic(type) == type = "string"

PadLen(n) == (32 - (n % 32)) % 32

\* the tail of a dynamic value: its length, then its bytes right-padded to 32
AbiTail(type, value) ==
    IF ~IsDynamic(type) THEN <<>>
    ELSE <<Word(Len(value))>>
         \o (IF value = <<>> THEN <<>>
             ELSE <<Raw(value \o ZeroBytes(PadLen(Len(value))))>>)

\* head and tail of fields i..Len(tys), the tail so far being `off` bytes long
RECURSIVE AbiLayout(_, _, _, _)
AbiLayout(tys, values, i, off) ==
    IF i > Len(tys) THEN [head |-> <<>>, tail |-> <<>>]
    ELSE LET ty == tys[i].type
             val == values[tys[i].name]
             tl == AbiTail(ty, val)
             rest == AbiLayout(tys, values, i + 1, off + ByteLen(tl))
             hd == CASE ty = "uint256" -> Word(val)
                     [] ty = "bool" -> Word(IF val THEN 1 ELSE 0)
                     [] OTHER -> Word(32 * Len(tys) + off)
         IN  [head |-> <<hd>> \o rest.head, tail |-> tl \o rest.tail]

\* eth_abi.encode(types, values)
AbiEncode(tys, values) ==
    LET l == AbiLayout(tys, values, 1, 0) IN l.head \o l.tail

\* args = Web3.keccak(encode([...], [...]))
OrderHash(o) == Keccak(AbiEncode(OrderTypes, o))

-----------------------------------------------------------------------------
(* Values a variable holds before its statement has run *)

NoAcct == [key |-> 0, address |-> None]
NoMsg == [version |-> 0, header |-> <<>>, body |-> <<>>]
NoCmd ==
    [signingAddr |-> None, primaryAddr |-> None, signature |-> None,
     expiryTime |-> None, networkType |-> None]
\* the literal order of test-vest.py line 10, its numbers and strings shortened
LiteralOrder ==
    [time |-> 1, nonce |-> 1, orderType |-> <<65>>, symbol |-> <<66>>,
     isBuy |-> TRUE, size |-> <<65>>, limitPrice |-> <<65>>, reduceOnly |-> FALSE]

-----------------------------------------------------------------------------
(* The environment: the clock and the OS random source *)

\* the random source moves on to its next output
Advance(e) == (e * 5 + 3) % Pow2(WordBits)

EnvStep ==
    /\ script \in {"vest", "order"}
    /\ pc # "raised"
    /\ now < MaxTime
    /\ now' = now + 1
    /\ entropy' = Advance(entropy)
    /\ UNCHANGED <<script, pc, primaryAddr, primary_private_key, acct, expiry,
                   proofSignature, signable_msg, signature, cmd, stdout, posted,
                   signLog, order, orderKey, args, sigKey, sigDigest, sigOut,
                   recovered>>

-----------------------------------------------------------------------------
(* src/src/utils/vest.py *)

EnvPublicKeys ==
    {None, ToChecksumAddress(AddressOf(1)), Lower(ToChecksumAddress(AddressOf(1))),
     ToChecksumAddress(AddressOf(2))}

EnvPrivateKeys == {None} \cup {KeyStr(k) : k \in {0, 1, 2, N}}

InitVest ==
    /\ script = "vest" /\ pc = "L15"
    /\ now = 0 /\ entropy \in 0..WordMax
    /\ primaryAddr \in EnvPublicKeys
    /\ primary_private_key \in EnvPrivateKeys
    /\ acct = NoAcct /\ expiry = 0
    /\ proofSignature = NoMsg /\ signable_msg = NoMsg
    /\ signature = None /\ cmd = NoCmd
    /\ stdout = <<>> /\ posted = <<>> /\ signLog = <<>>
    /\ order = LiteralOrder /\ orderKey = 0 /\ args = NoToken
    /\ sigKey = 0 /\ sigDigest = 0 /\ sigOut = NoSig /\ recovered = NoAddress

\* lines 15-16: priv = secrets.token_hex(32); private_key = "0x" + priv
TokenHex(e) == KeyStr(e)

\* line 17: EthAccount.from_key accepts a scalar in 1..N-1 and raises otherwise
FromKeyOk(private_key) == private_key.kind = "key" /\ ValidScalar(private_key.n)
FromKey(private_key) ==
    [key |-> private_key.n, address |-> ToChecksumAddress(AddressOf(private_key.n))]

\* lines 18-19
signing_private_key == KeyStr(acct.key)
signing_public_key == acct.address

\* lines 14-19, Phase 1: generate a new signing key
GenerateKey ==
    /\ script = "vest" /\ pc = "L15"
    /\ entropy' = Advance(entropy)
    /\ IF FromKeyOk(TokenHex(entropy))
       THEN acct' = FromKey(TokenHex(entropy)) /\ pc' = "L22"
       ELSE acct' = acct /\ pc' = "raised"
    /\ UNCHANGED <<script, now, primaryAddr, primary_private_key, expiry,
                   proofSignature, signable_msg, signature, cmd, stdout, posted,
                   signLog, order, orderKey, args, sigKey, sigDigest, sigOut,
                   recovered>>

\* line 22: expiry = int(time.time()) * 1000 + (1 * 24 * 3600000)
Expiry(t) == t * 1000 + (1 * 24 * 3600000)

\* lines 22-39, Phase 2: build the SignerProof message
BuildProof ==
    /\ script = "vest" /\ pc = "L22"
    /\ expiry' = Expiry(now)
    /\ proofSignature' =
           EncodeTypedData(domain, types, ProofArgs(signing_public_key, Expiry(now)))
    /\ pc' = "L40"
    /\ UNCHANGED <<script, now, entropy, primaryAddr, primary_private_key, acct,
                   signable_msg, signature, cmd, stdout, posted, signLog, order,
                   orderKey, args, sigKey, sigDigest, sigOut, recovered>>

\* the freshly generated key signing its own proof
ProofSigningKeyDelegated == signing_private_key

\* the key line 40 hands to sign_message
ProofSigningKey == primary_private_key

\* line 40: signature = EthAccount.sign_message(proofSignature, key).signature.hex()
SignProof ==
    /\ script = "vest" /\ pc = "L40"
    /\ signLog' = Append(signLog, ProofSigningKey)
    /\ IF FromKeyOk(ProofSigningKey)
       THEN /\ signature' = SigStr(SignMessage(proofSignature, ProofSigningKey.n))
            /\ pc' = "L42"
       ELSE signature' = signature /\ pc' = "raised"
    /\ UNCHANGED <<script, now, entropy, primaryAddr, primary_private_key, acct,
                   expiry, proofSignature, signable_msg, cmd, stdout, posted,
                   order, orderKey, args, sigKey, sigDigest, sigOut, recovered>>

\* the expiry read from the clock again when the command is formatted
FormatArgsStaleExpiry ==
    [signingAddr |-> Lower(acct.address), primaryAddr |-> Lower(primaryAddr),
     signature |-> signature, expiry |-> IntStr(Expiry(now)),
     openbrace |-> Literal("{"), closebrace |-> Literal("}")]

\* signing_private_key taken for signing_public_key
FormatArgsLeak ==
    [signingAddr |-> Lower(signing_private_key), primaryAddr |-> Lower(primaryAddr),
     signature |-> signature, expiry |-> IntStr(expiry),
     openbrace |-> Literal("{"), closebrace |-> Literal("}")]

\* line 42: the dict d (openbrace and closebrace are the literal braces)
FormatArgs ==
    [signingAddr |-> Lower(acct.address), primaryAddr |-> Lower(primaryAddr),
     signature |-> signature, expiry |-> IntStr(expiry),
     openbrace |-> Literal("{"), closebrace |-> Literal("}")]

\* lines 43-48: which placeholder fills which field of the JSON body
Template ==
    [signingAddr |-> "signingAddr", primaryAddr |-> "primaryAddr",
     signature |-> "signature", expiryTime |-> "expiry"]

\* line 49: s.format(**d); networkType is the literal 0 of the template
Format(tpl, d) ==
    [f \in DOMAIN tpl \cup {"networkType"} |->
        IF f = "networkType" THEN IntStr(0) ELSE d[tpl[f]]]

\* a lower() that lets None through
LowerNeverRaises(str) == FALSE

\* None has no lower(): primaryAddr.lower() raises AttributeError
LowerRaises(str) == str = None

\* lines 42-49: build d and format the curl command
BuildCommand ==
    /\ script = "vest" /\ pc = "L42"
    /\ IF LowerRaises(primaryAddr)
       THEN cmd' = cmd /\ pc' = "raised"
       ELSE cmd' = Format(Template, FormatArgs) /\ pc' = "L50"
    /\ UNCHANGED <<script, now, entropy, primaryAddr, primary_private_key, acct,
                   expiry, proofSignature, signable_msg, signature, stdout,
                   posted, signLog, order, orderKey, args, sigKey, sigDigest,
                   sigOut, recovered>>

\* the strings a formatted command carries
CommandLine(c) ==
    <<Literal("curl"), c.signingAddr, c.primaryAddr, c.signature, c.expiryTime,
      c.networkType>>

\* line 50: print(cmd)
PrintCommand ==
    /\ script = "vest" /\ pc = "L50"
    /\ stdout' = Append(stdout, CommandLine(cmd))
    /\ pc' = "L51"
    /\ UNCHANGED <<script, now, entropy, primaryAddr, primary_private_key, acct,
                   expiry, proofSignature, signable_msg, signature, cmd, posted,
                   signLog, order, orderKey, args, sigKey, sigDigest, sigOut,
                   recovered>>

\* line 51: os.system(cmd) posts the JSON body; its exit status is not read
Register ==
    /\ script = "vest" /\ pc = "L51"
    /\ posted' = Append(posted, cmd)
    /\ pc' = "L53"
    /\ UNCHANGED <<script, now, entropy, primaryAddr, primary_private_key, acct,
                   expiry, proofSignature, signable_msg, signature, cmd, stdout,
                   signLog, order, orderKey, args, sigKey, sigDigest, sigOut,
                   recovered>>

\* lines 53-55: the three final print calls
FinalOutput ==
    <<<<Literal("")>>,
      <<Literal("Signing Address (for information):"), signing_public_key>>,
      <<Literal("Signing Private Key (keep this secret!):"), signing_private_key>>>>

PrintResult ==
    /\ script = "vest" /\ pc = "L53"
    /\ stdout' = stdout \o FinalOutput
    /\ pc' = "done"
    /\ UNCHANGED <<script, now, entropy, primaryAddr, primary_private_key, acct,
                   expiry, proofSignature, signable_msg, signature, cmd, posted,
                   signLog, order, orderKey, args, sigKey, sigDigest, sigOut,
                   recovered>>

-----------------------------------------------------------------------------
(* src/test-vest.py *)

\* byte strings of at most MaxStrLen bytes "A", and the one-byte string "B"
RECURSIVE Repeat(_, _)
Repeat(b, n) == IF n = 0 THEN <<>> ELSE <<b>> \o Repeat(b, n - 1)
Strings == {Repeat(65, n) : n \in 0..MaxStrLen} \cup {<<66>>}

\* two values for each integer field
Uints == {0, 1}

Orders ==
    [time : Uints, nonce : Uints, orderType : Strings, symbol : Strings,
     isBuy : BOOLEAN, size : Strings, limitPrice : Strings, reduceOnly : BOOLEAN]

\* stand-in for the private key literal of line 24
OrderKeys == {17}

InitOrder ==
    /\ script = "order" /\ pc = "L12"
    /\ now = 0 /\ entropy = 0
    /\ order \in Orders /\ orderKey \in OrderKeys
    /\ primaryAddr = None /\ primary_private_key = None
    /\ acct = NoAcct /\ expiry = 0
    /\ proofSignature = NoMsg /\ signable_msg = NoMsg
    /\ signature = None /\ cmd = NoCmd
    /\ stdout = <<>> /\ posted = <<>> /\ signLog = <<>>
    /\ args = NoToken
    /\ sigKey = 0 /\ sigDigest = 0 /\ sigOut = NoSig /\ recovered = NoAddress

\* the hex string of a 32-byte hash (HexBytes.hex())
HashStr(tok) == Str("hash", tok, "lower", 0, NoSig, "")

\* lines 12-18: args = Web3.keccak(encode(...)); print it
HashOrder ==
    /\ script = "order" /\ pc = "L12"
    /\ args' = OrderHash(order)
    /\ stdout' = Append(stdout, <<Literal("Args Hash:"), HashStr(OrderHash(order))>>)
    /\ pc' = "L20"
    /\ UNCHANGED <<script, now, entropy, primaryAddr, primary_private_key, acct,
                   expiry, proofSignature, signable_msg, signature, cmd, posted,
                   signLog, order, orderKey, sigKey, sigDigest, sigOut, recovered>>

\* the order hash signed as typed data under the router's domain
OrderSignableTyped(hash) ==
    [version |-> 1, header |-> <<HashDomain(domain)>>, body |-> <<hash>>]

\* line 20: the message the order script signs
OrderSignable(hash) == EncodeDefunct(<<hash>>)

\* lines 20-21: signable_msg = encode_defunct(args); print it
WrapOrder ==
    /\ script = "order" /\ pc = "L20"
    /\ signable_msg' = OrderSignable(args)
    /\ stdout' = Append(stdout, <<Literal("Signable Message:"),
                                  IntStr(OrderSignable(args).version), HashStr(args)>>)
    /\ pc' = "L23"
    /\ UNCHANGED <<script, now, entropy, primaryAddr, primary_private_key, acct,
                   expiry, proofSignature, signature, cmd, posted, signLog,
                   order, orderKey, args, sigKey, sigDigest, sigOut, recovered>>

\* lines 23-27: signature = EthAccount.sign_message(...).signature.hex(); print it
SignOrder ==
    /\ script = "order" /\ pc = "L23"
    /\ signLog' = Append(signLog, KeyStr(orderKey))
    /\ signature' = SigStr(SignMessage(signable_msg, orderKey))
    /\ stdout' = Append(stdout, <<Literal("Signature:"),
                                  SigStr(SignMessage(signable_msg, orderKey))>>)
    /\ pc' = "done"
    /\ UNCHANGED <<script, now, entropy, primaryAddr, primary_private_key, acct,
                   expiry, proofSignature, signable_msg, cmd, posted, order,
                   orderKey, args, sigKey, sigDigest, sigOut, recovered>>

-----------------------------------------------------------------------------
(* Sign/recover over every scalar and every digest *)

InitSig ==
    /\ script = "sig" /\ pc = "sign"
    /\ sigKey \in 0..WordMax /\ sigDigest \in 0..WordMax
    /\ sigOut = NoSig /\ recovered = NoAddress
    /\ now = 0 /\ entropy = 0
    /\ primaryAddr = None /\ primary_private_key = None
    /\ acct = NoAcct /\ expiry = 0
    /\ proofSignature = NoMsg /\ signable_msg = NoMsg
    /\ signature = None /\ cmd = NoCmd
    /\ stdout = <<>> /\ posted = <<>> /\ signLog = <<>>
    /\ order = LiteralOrder /\ orderKey = 0 /\ args = NoToken

\* SignatureService.sign: InvalidKey unless the scalar is in 1..N-1
SigSign ==
    /\ script = "sig" /\ pc = "sign"
    /\ IF ValidScalar(sigKey)
       THEN sigOut' = EcdsaSign(sigDigest, sigKey) /\ pc' = "recover"
       ELSE sigOut' = sigOut /\ pc' = "InvalidKey"
    /\ UNCHANGED <<script, now, entropy, primaryAddr, primary_private_key, acct,
                   expiry, proofSignature, signable_msg, signature, cmd, stdout,
                   posted, signLog, order, orderKey, args, sigKey, sigDigest,
                   recovered>>

\* SignatureService.recover
SigRecover ==
    /\ script = "sig" /\ pc = "recover"
    /\ recovered' = EcdsaRecover(sigDigest, sigOut)
    /\ pc' = "done"
    /\ UNCHANGED <<script, now, entropy, primaryAddr, primary_private_key, acct,
                   expiry, proofSignature, signable_msg, signature, cmd, stdout,
                   posted, signLog, order, orderKey, args, sigKey, sigDigest,
                   sigOut>>

-----------------------------------------------------------------------------
(* Specifications *)

Init == InitVest \/ InitOrder

Next ==
    \/ EnvStep
    \/ GenerateKey
    \/ BuildProof
    \/ SignProof
    \/ BuildCommand
    \/ PrintCommand
    \/ Register
    \/ PrintResult
    \/ HashOrder
    \/ WrapOrder
    \/ SignOrder

\* one run of vest.py or of test-vest.py
Spec == Init /\ [][Next]_vars

NextSig == SigSign \/ SigRecover

\* sign followed by recover, over every scalar and digest
SpecSig == InitSig /\ [][NextSig]_vars

-----------------------------------------------------------------------------
(* Properties *)

\* a statement of vest.py can run
VestStep ==
    \/ GenerateKey \/ BuildProof \/ SignProof \/ BuildCommand
    \/ PrintCommand \/ Register \/ PrintResult

Ok(addrTok) == [ok |-> TRUE, address |-> addrTok]

\* what a signed SignerProof message binds: its two struct fields
ProofApprovedSigner(m) == m.body[1].pre[3]
ProofSignerExpiry(m) == m.body[1].pre[4].v

\* string str is the hex of a private key and appears in the line
KeyAppears(line) == \E i \in DOMAIN line : line[i].kind = "key"

C2_PrimaryAddrIsSigner ==
    \A i \in DOMAIN posted :
        /\ posted[i].signature = SigStr(SignMessage(proofSignature, signLog[1].n))
        /\ HexToBytes(posted[i].primaryAddr) = AddressOf(signLog[1].n)

\* C3: every request sent carries the values the signed proof binds: signingAddr
\* is the lowercase hex of the proof's approvedSigner, which is the generated
\* key's address, expiryTime is the proof's signerExpiry, and the signature of
\* the request is one over that proof.
C3_RequestMatchesProof ==
    \A i \in DOMAIN posted :
        /\ posted[i].signingAddr.kind = "addr"
        /\ posted[i].signingAddr.case = "lower"
        /\ HexToBytes(posted[i].signingAddr) = ProofApprovedSigner(proofSignature)
        /\ ProofApprovedSigner(proofSignature) = AddressOf(acct.key)
        /\ posted[i].expiryTime = IntStr(ProofSignerExpiry(proofSignature))
        /\ posted[i].signature
               = SigStr(SignMessage(proofSignature, primary_private_key.n))

C3_Witness ==
    /\ script = "vest" /\ Len(posted) = 1 /\ now > 0
    /\ posted[1].expiryTime = IntStr(Expiry(0))

\* C4: a failure (key generation, signing, an absent PUBLIC_KEY or PRIVATE_KEY)
\* aborts the run: after it no statement runs, nothing was posted and nothing
\* printed; a request is posted only after key generation, proof building and
\* signing have all succeeded with both inputs present.
C4_FailureAborts ==
    script = "vest" =>
        /\ pc = "raised" => posted = <<>> /\ stdout = <<>> /\ ~ENABLED VestStep
        /\ (primaryAddr = None \/ ~FromKeyOk(primary_private_key)) =>
               posted = <<>> /\ pc # "done"
        /\ posted # <<>> =>
               /\ ValidScalar(acct.key)
               /\ proofSignature # NoMsg
               /\ signature # None

\* the run failed at line 42, after signing, on the absent PUBLIC_KEY
C4_Witness ==
    /\ script = "vest" /\ pc = "raised"
    /\ primaryAddr = None /\ signature # None

\* C5: key generation never fails: a draw of 0 or of a value >= N is resampled.
C5_GenerateNeverFails ==
    ~(script = "vest" /\ pc = "raised" /\ acct = NoAcct)

\* the order with field f set to value x
WithField(o, f, x) == [o EXCEPT ![f] = x]
FieldValues(f) ==
    CASE f \in {"time", "nonce"} -> Uints
      [] f \in {"isBuy", "reduceOnly"} -> BOOLEAN
      [] OTHER -> Strings
OrderFieldNames ==
    {"time", "nonce", "orderType", "symbol", "isBuy", "size", "limitPrice",
     "reduceOnly"}

\* C6: args is the hash of the encoding of the eight fields in the fixed order:
\* the head of the encoding holds time, nonce, isBuy and reduceOnly in words 1,
\* 2, 5 and 8 and the offset of orderType's tail, just after the eight head
\* words, in word 3; an order differing from the hashed one in exactly one field has
\* another hash, and an order with the same eight fields has the same hash.
C6_OrderHashAvalanche ==
    (script = "order" /\ args # NoToken) =>
        /\ \A f \in OrderFieldNames : \A x \in FieldValues(f) :
               x # order[f] => OrderHash(WithField(order, f, x)) # args
        /\ OrderHash([f \in OrderFieldNames |-> order[f]]) = args
        /\ args.pre[1] = Word(order.time)
        /\ args.pre[2] = Word(order.nonce)
        /\ args.pre[3] = Word(8 * 32)
        /\ args.pre[5] = Word(IF order.isBuy THEN 1 ELSE 0)
        /\ args.pre[8] = Word(IF order.reduceOnly THEN 1 ELSE 0)

C6_Witness ==
    /\ script = "order" /\ pc = "done"
    /\ order.isBuy /\ ~order.reduceOnly /\ order.size = <<66>>

\* C7: recover(d, sign(d, k)) = addressOf(k) for every valid scalar k and every
\* digest d.
C7_SignRecoverRoundTrip ==
    (script = "sig" /\ pc = "done") => recovered = Ok(AddressOf(sigKey))

\* a round trip through a high-s signature whose R.x is not below N
C7_Witness ==
    /\ script = "sig" /\ pc = "done" /\ sigOut.v >= 29
    /\ sigDigest >= N

\* C8: digests and signatures are functions of their typed inputs only: whatever
\* the clock and the random source have become since, recomputing from the
\* order fields and key (order path), or from the domain, the signer address,
\* the expiry and the key (proof path), reproduces the stored values.
C8_NoHiddenInput ==
    /\ (script = "order" /\ args # NoToken) => args = OrderHash(order)
    /\ (script = "order" /\ signable_msg # NoMsg) =>
           signable_msg = OrderSignable(OrderHash(order))
    /\ (script = "order" /\ signature # None) =>
           signature = SigStr(SignMessage(OrderSignable(OrderHash(order)), orderKey))
    /\ (script = "vest" /\ proofSignature # NoMsg) =>
           proofSignature
               = EncodeTypedData(domain, types, ProofArgs(acct.address, expiry))
    /\ (script = "vest" /\ signature # None) =>
           signature = SigStr(SignMessage(
               EncodeTypedData(domain, types, ProofArgs(acct.address, expiry)),
               primary_private_key.n))

\* the clock and the random source have moved on since the signature was made
C8_Witness ==
    /\ signature # None /\ now = MaxTime
    /\ script = "vest" => proofSignature.body[1].pre[4] = Word(Expiry(0))

\* the typed-data message over the same 32-byte payload as a wrapped message
TypedOver(header, payload) ==
    [version |-> 1, header |-> <<header>>, body |-> payload]

\* C9: the proof is signed as the typed-data digest keccak(0x19 0x01 ||
\* domain separator || struct hash), an order as the personal-message digest
\* keccak(0x19 "Ethereum Signed Message:\n32" || orderHash), never as the raw
\* hash; and over one and the same payload the two digests differ.
C9_TwoPipelines ==
    /\ (script = "vest" /\ proofSignature # NoMsg) =>
           /\ proofSignature.version = 1
           /\ proofSignature.header = <<HashDomain(domain)>>
           /\ HashEip191(proofSignature).pre[1] = Raw(<<25, 1>>)
           /\ HashEip191(EncodeDefunct(proofSignature.body))
                  # HashEip191(proofSignature)
           /\ signature # None =>
                  signature.sig
                      = EcdsaSign(Bits2Int(HashEip191(proofSignature)),
                                  primary_private_key.n)
    /\ (script = "order" /\ signable_msg # NoMsg) =>
           /\ signable_msg.version = 69
           /\ signable_msg.body = <<OrderHash(order)>>
           /\ HashEip191(signable_msg).pre
                  = <<Raw(<<25, 69>> \o DefunctHeader \o <<51, 50>>), args>>
           /\ HashEip191(signable_msg) # args
           /\ \A h \in {HashDomain(domain), args} :
                  HashEip191(TypedOver(h, signable_msg.body))
                      # HashEip191(signable_msg)
           /\ signature # None =>
                  signature.sig
                      = EcdsaSign(Bits2Int(HashEip191(signable_msg)), orderKey)

C9_Witness == script = "order" /\ pc = "done" /\ signature # None

====
